---- MODULE Spec2Model ----
(***************************************************************************)
(* Tubonge chat server: the socket.io authentication middleware, the       *)
(* activeUsers registry and the per-socket handlers (sendMessage, typing,  *)
(* stopTyping, disconnect) of the server, src/unnamed/part_000.  The       *)
(* earlier revision src/unnamed/part_001 has the same handlers, announces  *)
(* a connection with one io.emit and stores no id in the registry entry.   *)
(*                                                                         *)
(* Node runs every handler to completion, so one handler run is one        *)
(* action; the two awaits of sendMessage split it into three steps.        *)
(* save() and findById() belong to the message store: each settles either *)
(* way.  socket.join(user.id) and the message timestamp are left out: no   *)
(* handler reads a room or a timestamp.  Socket ids are handed out in      *)
(* handshake order.                                                        *)
(*                                                                         *)
(* Spec is the server with any clients.  ClientSpec is one Chat component  *)
(* (src/frontend/src/utils/socket.js, src/frontend/src/components/Chat.jsx)*)
(* with its socket, in each of its three revisions, against the server as  *)
(* that one client sees it.                                                *)
(***************************************************************************)
EXTENDS Naturals, Sequences, FiniteSets, TLC

\* ------------------------------------------------------------------ bounds
MaxSock == 3            \* connection attempts (socket ids 1..MaxSock)
MaxMsg == 2             \* Message documents constructed (ids 1..MaxMsg)
MaxLoad == 12           \* three units per connection attempt, three per
                        \*   Message document

Sock == 1..MaxSock
MsgId == 1..MaxMsg

\* ------------------------------------------------------------- identities
\* What the credential issuer signs into a token: {id, username}.
Identities ==
    { [id |-> "u1", username |-> "alice"], [id |-> "u2", username |-> "bob"] }

NoUser == [id |-> "none", username |-> "none"]

\* null, as the typingUser state holds it when nobody is typing.
Null == "null"

\* The User collection as populate('sender', 'username') reads it.
UsernameOf(uid) == (CHOOSE i \in Identities : i.id = uid).username

\* ----------------------------------------------------------------- tokens
\* socket.handshake.auth.token: absent, not a JWT at all, or a JWT whose
\* signature and expiry may each be good or bad.
AbsentToken == [kind |-> "absent", payload |-> NoUser, sig |-> "none", exp |-> "none"]
GarbageToken == [kind |-> "garbage", payload |-> NoUser, sig |-> "none", exp |-> "none"]
JwtTokens ==
    { [kind |-> "jwt", payload |-> p, sig |-> g, exp |-> x] :
        p \in Identities,
        g \in {"valid", "forged"},
        x \in {"live", "expired"} }
Tokens == {AbsentToken, GarbageToken} \cup JwtTokens

ErrNoToken == "Authentication error: No token provided"
ErrInvalidToken == "Authentication error: Invalid token"
ErrSend == "Failed to send message"

\* jwt.verify(token, secret): the payload, or a throw.
JwtVerify(token) ==
    IF token.kind = "jwt" /\ token.sig = "valid" /\ token.exp = "live"
    THEN [threw |-> FALSE, decoded |-> token.payload]
    ELSE [threw |-> TRUE, decoded |-> NoUser]

AuthMiddlewareForged(token) ==
    IF token.kind = "absent"
    THEN [admit |-> FALSE, error |-> ErrNoToken, user |-> NoUser]
    ELSE IF token.kind = "jwt" /\ token.exp = "live"
    THEN [admit |-> TRUE, error |-> "", user |-> token.payload]
    ELSE [admit |-> FALSE, error |-> ErrInvalidToken, user |-> NoUser]

AuthMiddlewareOneError(token) ==
    IF token.kind # "absent" /\ ~JwtVerify(token).threw
    THEN [admit |-> TRUE, error |-> "", user |-> JwtVerify(token).decoded]
    ELSE [admit |-> FALSE, error |-> ErrInvalidToken, user |-> NoUser]

\* io.use((socket, next) => ...): next() admits, next(new Error(..)) rejects.
AuthMiddleware(token) ==
    IF token.kind = "absent"
    THEN [admit |-> FALSE, error |-> ErrNoToken, user |-> NoUser]
    ELSE IF ~JwtVerify(token).threw
    THEN [admit |-> TRUE, error |-> "", user |-> JwtVerify(token).decoded]
    ELSE [admit |-> FALSE, error |-> ErrInvalidToken, user |-> NoUser]

\* ------------------------------------------------------- the registry Map
\* A JavaScript Map keeps insertion order: a sequence of [key, val] pairs.
MapHas(m, k) == \E i \in 1..Len(m) : m[i].key = k

MapSetKeepFirst(m, k, v) ==
    IF MapHas(m, k) THEN m ELSE Append(m, [key |-> k, val |-> v])

\* Map.prototype.set: replaces in place, or appends.
MapSet(m, k, v) ==
    IF MapHas(m, k)
    THEN [i \in 1..Len(m) |-> IF m[i].key = k THEN [key |-> k, val |-> v] ELSE m[i]]
    ELSE Append(m, [key |-> k, val |-> v])

MapDeleteNothing(m, k) == m

MapDeleteHead(m, k) == IF m = << >> THEN m ELSE Tail(m)

MapDeleteOrLast(m, k) ==
    IF MapHas(m, k) THEN SelectSeq(m, LAMBDA e : e.key # k)
    ELSE SubSeq(m, 1, Len(m) - 1)

\* Map.prototype.delete
MapDelete(m, k) == SelectSeq(m, LAMBDA e : e.key # k)

MapValuesButLast(m) ==
    IF m = << >> THEN << >> ELSE [i \in 1..(Len(m) - 1) |-> m[i].val]

\* Array.from(map.values())
MapValues(m) == [i \in 1..Len(m) |-> m[i].val]

\* The value stored by activeUsers.set.
Entry(user, s) ==
    [id |-> user.id, username |-> user.username, socketId |-> s]

\* ------------------------------------------------------------- emissions
\* One emit call: the sockets it reaches, the event and its payload.
\* `conn` is the set of sockets connected to the namespace.
SocketEmit(conn, s, ev, payload) ==
    [to |-> {s} \cap conn, ev |-> ev, payload |-> payload]

BroadcastEmit(conn, s, ev, payload) ==
    [to |-> conn \ {s}, ev |-> ev, payload |-> payload]

IoEmit(conn, ev, payload) ==
    [to |-> conn, ev |-> ev, payload |-> payload]

\* How many events named ev the emit calls in `emits` deliver to socket s.
Received(emits, s, ev) ==
    Len(SelectSeq(emits, LAMBDA e : e.ev = ev /\ s \in e.to))

\* ------------------------------------------- what each handler emits
ConnectionEmitsSelfOnly(conn, s, roster) ==
    << SocketEmit(conn, s, "activeUsers", roster) >>

ConnectionEmitsTwice(conn, s, roster) ==
    << SocketEmit(conn, s, "activeUsers", roster),
       IoEmit(conn, "activeUsers", roster) >>

\* socket.emit('activeUsers', ..) then socket.broadcast.emit('activeUsers', ..)
ConnectionEmits(conn, s, roster) ==
    << SocketEmit(conn, s, "activeUsers", roster),
       BroadcastEmit(conn, s, "activeUsers", roster) >>

DisconnectEmitsTwice(conn, roster) ==
    << IoEmit(conn, "activeUsers", roster), IoEmit(conn, "activeUsers", roster) >>

\* io.emit('activeUsers', Array.from(activeUsers.values()))
DisconnectEmits(conn, roster) ==
    << IoEmit(conn, "activeUsers", roster) >>

NewMessageSpoofable(id, s, user, data) ==
    [_id |-> id, sock |-> s,
     sender |-> IF data.sender = "none" THEN user.id ELSE data.sender,
     content |-> data.content]

\* new Message({sender: socket.user.id, content: data.content, ...});
\* mongoose assigns _id at construction.
NewMessage(id, s, user, data) ==
    [_id |-> id, sock |-> s, sender |-> user.id, content |-> data.content]

\* Message.findById(_id).populate('sender', 'username')
Populated(p) ==
    [_id |-> p._id,
     sender |-> [_id |-> p.sender, username |-> UsernameOf(p.sender)],
     content |-> p.content]

NewMessageEmitsOthers(conn, p) ==
    << BroadcastEmit(conn, p.sock, "newMessage", Populated(p)) >>

\* io.emit('newMessage', populatedMessage)
NewMessageEmits(conn, p) ==
    << IoEmit(conn, "newMessage", Populated(p)) >>

ErrorEmitsBroadcastAnyway(conn, p) ==
    << IoEmit(conn, "newMessage", Populated(p)) >>

ErrorEmitsToAll(conn, p) ==
    << IoEmit(conn, "error", [message |-> ErrSend]) >>

\* catch: socket.emit('error', {message: 'Failed to send message'})
ErrorEmits(conn, p) ==
    << SocketEmit(conn, p.sock, "error", [message |-> ErrSend]) >>

\* catch after data.content threw on a missing payload: same socket.emit
PayloadErrorEmits(conn, s) ==
    << SocketEmit(conn, s, "error", [message |-> ErrSend]) >>

\* Nothing is emitted between the save and the read-back.
SaveEmitsEcho(conn, p) ==
    << SocketEmit(conn, p.sock, "newMessage", Populated(p)) >>

\* await message.save() is followed directly by the read-back.
SaveEmits(conn, p) == << >>

\* The _ids of the newMessage events among `emits` that reach socket s.
NewMessageIds(emits, s) ==
    LET hits == SelectSeq(emits, LAMBDA e : e.ev = "newMessage" /\ s \in e.to)
    IN [i \in 1..Len(hits) |-> hits[i].payload._id]

ThrowEscapesPayload(where) == where = "payload"

\* try { ... } catch (error) { ... } encloses the whole body of the
\* sendMessage handler: the read of data.content, the save and the read-back.
\* No throw at any of them leaves the handler.
ThrowEscapes(where) == FALSE

\* process.on('uncaughtException') and process.on('unhandledRejection')
\* end the process on a throw that left its handler.
ProcessAfter(escaped) == IF escaped THEN "exited" ELSE "running"

\* await message.save() resolving: the document is in the collection.
Saved(store, p) ==
    store \cup {[_id |-> p._id, sender |-> p.sender, content |-> p.content]}

TypingEmitsAll(conn, s, ev, user) ==
    << IoEmit(conn, ev, [username |-> user.username]) >>

\* socket.broadcast.emit('userTyping' / 'userStopTyping', {username})
TypingEmits(conn, s, ev, user) ==
    << BroadcastEmit(conn, s, ev, [username |-> user.username]) >>

\* Message content, by what the checks on it read: whether it is only
\* whitespace, and its length in code units.
MaxContentLen == 1000

Text(len) == [blank |-> FALSE, len |-> len]
Blank(len) == [blank |-> TRUE, len |-> len]

\* String.prototype.trim
Trim(c) == IF c.blank THEN Blank(0) ELSE c

\* The Message schema's validation of content, run inside save(): a
\* required, trimmed string of at most MaxContentLen code units.
SchemaAccepts(c) == Trim(c).len >= 1 /\ c.len <= MaxContentLen

\* The sendMessage payloads a client can emit: nothing at all, or an
\* object with content and whatever else the client chooses to put in it
\* (here a sender field).
Undefined == [undefined |-> TRUE]
Contents == {Text(2), Blank(0), Blank(3), Text(MaxContentLen + 1)}
ClaimedSenders == {"none", "u1", "u2"}
Payloads ==
    {Undefined} \cup
    {[content |-> c, sender |-> x] : c \in Contents, x \in ClaimedSenders}

HandlerNamesNoDisconnect == {"sendMessage", "typing", "stopTyping"}

HandlerNames == {"sendMessage", "typing", "stopTyping", "disconnect"}

\* ------------------------------------------------- the Chat component
\* The client of one socket: the socket module (initializeSocket,
\* disconnectSocket) and the Chat component's socket effect, listeners and
\* form handlers.
MaxMount == 2           \* runs of the socket effect (the component mounts,
                        \*   then user.token changes)
MaxDrop == 1            \* transport drops of one socket, each followed by
                        \*   socket.io's reconnection
MaxOut == 1             \* sendMessage events emitted and not yet handled
MaxClientLoad == 3      \* effect runs, drops of the current socket and
                        \*   messages at the server, together

\* The three revisions of the component: the current one (socket.js, second
\* Chat), the one before it (socket.js, first Chat) and the original
\* (Chat.jsx).
Revisions == {"current", "previous", "original"}

ClientEvents == {"activeUsers", "newMessage", "userTyping", "userStopTyping", "error"}

NoListeners == [e \in ClientEvents |-> 0]

\* socket.off(event) for each of the five events: every handler goes.
DetachAll(l) == NoListeners

\* socket.on(event, handler) for each of the five events.
AttachAll(l) == [e \in ClientEvents |-> l[e] + 1]

SetupSocketListenersNoOff(r, l) == AttachAll(l)

\* setupSocketListeners: the current revision detaches before it attaches.
SetupSocketListeners(r, l) ==
    IF r = "current" THEN AttachAll(DetachAll(l)) ELSE AttachAll(l)

\* setupSocketListeners run n times in a row.
RECURSIVE SetupTimes(_, _, _)
SetupTimes(r, l, n) ==
    IF n = 0 THEN l ELSE SetupTimes(r, SetupSocketListeners(r, l), n - 1)

NoSetups == [once |-> 0, every |-> 0]

\* The end of the socket effect: where setupSocketListeners is called from.
\* `connected` is socketRef.current.connected at that moment.
EffectAttach(r, connected, l, c) ==
    IF r = "previous"
    THEN [listeners |-> SetupSocketListeners(r, l),
          setups |-> [c EXCEPT !.every = @ + 1]]
    ELSE IF connected
    THEN [listeners |-> SetupSocketListeners(r, l), setups |-> c]
    ELSE IF r = "current"
    THEN [listeners |-> l, setups |-> [c EXCEPT !.once = @ + 1]]
    ELSE [listeners |-> l, setups |-> [c EXCEPT !.every = @ + 1]]

\* What the server's newMessage carries, as far as the listener reads it.
MessagePayload(id, content) == [_id |-> id, content |-> content]

AppendAlways(r, prev, message) == Append(prev, message._id)

\* The newMessage listener's effect on the messages state.  JavaScript
\* treats the empty string as false, a whitespace string as true.
OnNewMessage(r, prev, message) ==
    IF r = "current"
    THEN IF message.content.len = 0
         THEN prev
         ELSE IF \E i \in 1..Len(prev) : prev[i] = message._id
         THEN prev
         ELSE Append(prev, message._id)
    ELSE Append(prev, message._id)

\* A newMessage event dispatched to n attached handlers, one after another.
RECURSIVE DispatchNewMessage(_, _, _, _)
DispatchNewMessage(r, prev, message, n) ==
    IF n = 0 THEN prev
    ELSE DispatchNewMessage(r, OnNewMessage(r, prev, message), message, n - 1)

\* The activeUsers listener: setActiveUsers(users || []); the server always
\* sends an array.
OnActiveUsers(users) == users

\* A client's activeUsers state after the emit calls `emits` have been
\* delivered to its socket q, in order.
RosterAfter(emits, q, prev) ==
    LET hits == {i \in 1..Len(emits) :
                    emits[i].ev = "activeUsers" /\ q \in emits[i].to}
    IN IF hits = {} THEN prev
       ELSE OnActiveUsers(emits[CHOOSE i \in hits : \A j \in hits : j <= i].payload)

\* What the message input can hold (its maxLength is MaxContentLen).
InputTexts == {Blank(0), Blank(3), Text(2)}

\* The history endpoint's answer: the stored messages, oldest first.
RECURSIVE HistoryOf(_)
HistoryOf(ids) ==
    IF ids = {} THEN << >>
    ELSE LET m == CHOOSE x \in ids : \A y \in ids : x <= y
         IN << m >> \o HistoryOf(ids \ {m})

\* How many entries of the list carry _id m.
Occurrences(list, m) == Cardinality({i \in 1..Len(list) : list[i] = m})

\* ------------------------------------------------------------------ state
VARIABLES
    sockState,      \* per connection attempt: connecting, rejected,
                    \*   authenticated, active, closed
    sockUser,       \* socket.user
    handlers,       \* the events each socket has a handler attached for
    activeUsers,    \* the registry Map
    pending,        \* sendMessage runs suspended at an await
    db,             \* the Message collection
    nextId,         \* next Message _id
    lastEmit,       \* the emit calls of the handler step that ran last
    lastOp,         \* which handler step ran last, and on what
    lastRegistryEvent,  \* history: per identity id, its last set/delete
    announced,      \* history: roster announcements triggered by each
                    \*   socket's connection
    bcastCount,     \* history: newMessage emit calls per message id
    failed,         \* history: message ids whose persistence failed
    activeUsersState,   \* the Chat component's activeUsers state, for the
                        \*   client of each socket in the namespace
    process,        \* the server process: running or exited
    received,       \* history: per socket, the _ids of the newMessage
                    \*   events it was sent, in order
    completed,      \* history: the _ids whose save and read-back both
                    \*   succeeded, in the order the read-backs settled
    sentOn          \* history: the socket each Message was submitted on

\* The Chat component of ClientSpec.
VARIABLES
    rev,            \* which revision of the component this is
    mounted,        \* the socket effect has run and not been cleaned up
    effects,        \* how many times the socket effect has run
    socketState,    \* the socket module's socket: none, opening,
                    \*   connected, dropped
    drops,          \* transport drops of the current socket
    listeners,      \* handlers attached on the socket, per event
    connectSetups,  \* 'connect' handlers that call setupSocketListeners:
                    \*   registered with once(), and with on()
    messages,       \* the messages state: the _ids, in list order
    newMessage,     \* the newMessage state (the input's text)
    loading,        \* the loading state
    typingTimeout,  \* typingTimeoutRef.current holds a timer
    outbox,         \* sendMessage events emitted on the socket and not
                    \*   yet handled by the server, oldest first
    histReq,        \* getMessages() requests the server has not served
    histResp,       \* getMessages() responses on their way back
    srvStage,       \* the server's progress on each message _id
    srvNext,        \* the next _id the server will assign
    own,            \* history: the _ids of this client's own messages
    appended,       \* history: the _ids newMessage events appended since
                    \*   the effect last ran
    lastClient      \* history: what the last client-side step was

serverVars == << sockState, sockUser, handlers, activeUsers,
                 pending, db, nextId, lastEmit, lastOp, lastRegistryEvent,
                 announced, bcastCount, failed, activeUsersState, process,
                 received, completed, sentOn >>

clientVars == << rev, mounted, effects, socketState, drops, listeners,
                 connectSetups, messages, newMessage, loading,
                 typingTimeout, outbox, histReq, histResp, srvStage,
                 srvNext, own, appended, lastClient >>

\* Delivery of a broadcast to each recipient, of DeliverySpec.
VARIABLES
    members,        \* the sockets in the namespace
    left,           \* the sockets that have disconnected
    stalled,        \* members whose transport has stopped draining
    outbuf,         \* per socket: packets written to it and not yet
                    \*   delivered, oldest first
    got,            \* per socket: the broadcasts delivered to its client
    lost,           \* per socket: the broadcasts dropped on its full buffer
    casts           \* history: the io.emit calls so far, in order

deliveryVars == << members, left, stalled, outbuf, got, lost, casts >>

\* The typing indicator of the receiving Chat component, of IndicatorSpec.
VARIABLES
    typingUser,     \* the typingUser state: a username or null
    timers,         \* setTimeout callbacks not yet run: when each is due
                    \*   and which userTyping event, of which user,
                    \*   started it
    now,            \* seconds since the component mounted
    typingCount,    \* history: userTyping events received so far
    lastIndicator   \* history: the last step that touched the indicator

indicatorVars == << typingUser, timers, now, typingCount, lastIndicator >>

\* The typing signal of the sending Chat component, of SenderSpec.
VARIABLES
    draft,              \* the newMessage state: the input's text
    typingTimeoutRef,   \* typingTimeoutRef.current: 0 for null, else the
                        \*   half second at which the timer it holds is due
    halfSeconds,        \* half seconds since the component mounted
    lastSignal,         \* history: the last typing or stopTyping emitted
    lastKeyAt,          \* history: when the last keystroke was handled
    lastSender          \* history: the last step and what it emitted

senderVars == << draft, typingTimeoutRef, halfSeconds, lastSignal,
                 lastKeyAt, lastSender >>

\* The client's socket module, of ModuleSpec.
VARIABLES
    socket,         \* the module's `socket`: 0 for null, else the number
                    \*   of the socket it holds
    ioSockets,      \* every socket io() has created, in order: its auth
                    \*   token and its state
    lastModule      \* history: the last call or socket event

moduleVars == << socket, ioSockets, lastModule >>

detailVars == << deliveryVars, indicatorVars, senderVars, moduleVars >>

vars == << serverVars, clientVars, detailVars >>

UserIds == {i.id : i \in Identities}

\* The sockets in the namespace: those whose connection handler has run and
\* that have not disconnected.
Connected == {s \in Sock : sockState[s] = "active"}

\* The connection attempts that have reached the middleware.
Attempts == Cardinality({s \in Sock : sockState[s] # "connecting"})

\* The component before it mounts, in revision r; the server it talks to
\* has no message yet.
ClientStart(r) ==
    /\ rev = r
    /\ mounted = FALSE
    /\ effects = 0
    /\ socketState = "none"
    /\ drops = 0
    /\ listeners = NoListeners
    /\ connectSetups = NoSetups
    /\ messages = << >>
    /\ newMessage = Blank(0)
    /\ loading = TRUE
    /\ typingTimeout = FALSE
    /\ outbox = << >>
    /\ histReq = {}
    /\ histResp = {}
    /\ srvStage = [m \in MsgId |-> "unused"]
    /\ srvNext = 1
    /\ own = {}
    /\ appended = {}
    /\ lastClient = [op |-> "init"]

ServerStart ==
    /\ sockState = [s \in Sock |-> "connecting"]
    /\ sockUser = [s \in Sock |-> NoUser]
    /\ handlers = [s \in Sock |-> {}]
    /\ activeUsers = << >>
    /\ pending = {}
    /\ db = {}
    /\ nextId = 1
    /\ lastEmit = << >>
    /\ lastOp = [op |-> "init"]
    /\ lastRegistryEvent = [u \in UserIds |-> "none"]
    /\ announced = [s \in Sock |-> 0]
    /\ bcastCount = [m \in MsgId |-> 0]
    /\ failed = {}
    /\ activeUsersState = << >>
    /\ process = "running"
    /\ received = [s \in Sock |-> << >>]
    /\ completed = << >>
    /\ sentOn = [m \in MsgId |-> 0]

\* An empty namespace: nothing written, nothing delivered.
DeliveryStart ==
    /\ members = {}
    /\ left = {}
    /\ stalled = {}
    /\ outbuf = [s \in Sock |-> << >>]
    /\ got = [s \in Sock |-> {}]
    /\ lost = [s \in Sock |-> {}]
    /\ casts = << >>

\* const [typingUser, setTypingUser] = useState(null), no timer started.
IndicatorStart ==
    /\ typingUser = Null
    /\ timers = {}
    /\ now = 0
    /\ typingCount = 0
    /\ lastIndicator = [op |-> "init"]

\* useState('') of newMessage, useRef(null) of typingTimeoutRef.
SenderStart ==
    /\ draft = Blank(0)
    /\ typingTimeoutRef = 0
    /\ halfSeconds = 0
    /\ lastSignal = "none"
    /\ lastKeyAt = 0
    /\ lastSender = [op |-> "init"]

\* let socket = null; no socket created.
ModuleStart ==
    /\ socket = 0
    /\ ioSockets = << >>
    /\ lastModule = [op |-> "init"]

DetailStart ==
    DeliveryStart /\ IndicatorStart /\ SenderStart /\ ModuleStart

Init == ServerStart /\ ClientStart("current") /\ DetailStart

\* ---------------------------------------------------------------- actions
\* A handshake reaches the authentication middleware.
Handshake(s, token) ==
    /\ process = "running"
    /\ sockState[s] = "connecting"
    /\ \A q \in Sock : q < s => sockState[q] # "connecting"
    /\ 3 * s + 3 * (nextId - 1) <= MaxLoad
    /\ LET r == AuthMiddleware(token) IN
        /\ sockState' = [sockState EXCEPT ![s] =
                            IF r.admit THEN "authenticated" ELSE "rejected"]
        /\ sockUser' = [sockUser EXCEPT ![s] = r.user]
        /\ lastOp' = [op |-> "handshake", sock |-> s, token |-> token,
                      error |-> r.error]
    /\ lastEmit' = << >>
    /\ UNCHANGED << handlers, activeUsers, pending, db, nextId,
                    lastRegistryEvent, announced, bcastCount, failed,
                    activeUsersState >>
    /\ UNCHANGED << clientVars, detailVars >>
    /\ UNCHANGED process
    /\ UNCHANGED << received, completed, sentOn >>

\* io.on('connection', socket => ...) for an admitted socket.
Connection(s) ==
    /\ process = "running"
    /\ sockState[s] = "authenticated"
    /\ LET user == sockUser[s]
           reg == MapSet(activeUsers, user.id, Entry(user, s))
           conn == Connected \cup {s}
           emits == ConnectionEmits(conn, s, MapValues(reg))
       IN
        /\ activeUsers' = reg
        /\ lastEmit' = emits
        /\ lastOp' = [op |-> "connection", sock |-> s, user |-> user,
                      replaced |-> MapHas(activeUsers, user.id)]
        /\ lastRegistryEvent' = [lastRegistryEvent EXCEPT ![user.id] = "register"]
        /\ announced' = [announced EXCEPT ![s] = @ + Received(emits, s, "activeUsers")]
        /\ activeUsersState' = [q \in conn |->
              RosterAfter(emits, q, IF q = s THEN << >> ELSE activeUsersState[q])]
    /\ sockState' = [sockState EXCEPT ![s] = "active"]
    /\ handlers' = [handlers EXCEPT ![s] = HandlerNames]
    /\ UNCHANGED << sockUser, pending, db, nextId,
                    bcastCount, failed >>
    /\ UNCHANGED << clientVars, detailVars >>
    /\ UNCHANGED process
    /\ UNCHANGED << received, completed, sentOn >>

\* socket.on('disconnect'): socket.io has already taken the socket out of
\* the namespace when the handler runs.
Disconnect(s) ==
    /\ process = "running"
    /\ sockState[s] = "active"
    /\ "disconnect" \in handlers[s]
    /\ LET user == sockUser[s]
           reg == MapDelete(activeUsers, user.id)
           conn == Connected \ {s}
           emits == DisconnectEmits(conn, MapValues(reg))
       IN
        /\ activeUsers' = reg
        /\ lastEmit' = emits
        /\ lastOp' = [op |-> "disconnect", sock |-> s, user |-> user,
                      others |-> conn, had |-> MapHas(activeUsers, user.id)]
        /\ lastRegistryEvent' = [lastRegistryEvent EXCEPT ![user.id] = "unregister"]
        /\ activeUsersState' = [q \in conn |->
              RosterAfter(emits, q, activeUsersState[q])]
    /\ sockState' = [sockState EXCEPT ![s] = "closed"]
    /\ UNCHANGED << sockUser, handlers, pending, db, nextId,
                    announced, bcastCount, failed >>
    /\ UNCHANGED << clientVars, detailVars >>
    /\ UNCHANGED process
    /\ UNCHANGED << received, completed, sentOn >>

\* socket.on('sendMessage', async data => ...) up to its first await.
\* Reading data.content of a missing payload throws into the catch.
SendMessage(s, data) ==
    /\ process = "running"
    /\ sockState[s] = "active"
    /\ "sendMessage" \in handlers[s]
    /\ IF data = Undefined
       THEN /\ lastEmit' = IF ThrowEscapes("payload") THEN << >>
                           ELSE PayloadErrorEmits(Connected, s)
            /\ lastOp' = [op |-> "sendMessage", sock |-> s, threw |-> TRUE]
            /\ UNCHANGED << pending, nextId >>
       ELSE /\ nextId <= MaxMsg
            /\ 3 * Attempts + 3 * nextId <= MaxLoad
            /\ pending' = pending \cup
                  {[msg |-> NewMessage(nextId, s, sockUser[s], data), stage |-> "save"]}
            /\ nextId' = nextId + 1
            /\ lastEmit' = << >>
            /\ lastOp' = [op |-> "sendMessage", sock |-> s, threw |-> FALSE,
                          data |-> data]
    /\ UNCHANGED << sockState, sockUser, handlers, activeUsers,
                    db, lastRegistryEvent, announced, bcastCount, failed,
                    activeUsersState >>
    /\ UNCHANGED << clientVars, detailVars >>
    /\ process' = ProcessAfter(data = Undefined /\ ThrowEscapes("payload"))
    /\ sentOn' = IF data = Undefined THEN sentOn
                 ELSE [sentOn EXCEPT ![nextId] = s]
    /\ UNCHANGED << received, completed >>

\* await message.save() settles.
SaveDone(p, ok) ==
    /\ process = "running"
    /\ p \in pending
    /\ p.stage = "save"
    /\ ok => SchemaAccepts(p.msg.content)
    /\ IF ok
       THEN /\ db' = Saved(db, p.msg)
            /\ pending' = (pending \ {p}) \cup {[p EXCEPT !.stage = "find"]}
            /\ lastEmit' = SaveEmits(Connected, p.msg)
            /\ UNCHANGED failed
       ELSE /\ pending' = pending \ {p}
            /\ lastEmit' = IF ThrowEscapes("save") THEN << >>
                           ELSE ErrorEmits(Connected, p.msg)
            /\ failed' = failed \cup {p.msg._id}
            /\ UNCHANGED db
    /\ lastOp' = [op |-> "save", msg |-> p.msg, ok |-> ok]
    /\ UNCHANGED << sockState, sockUser, handlers, activeUsers,
                    nextId, lastRegistryEvent, announced, bcastCount,
                    activeUsersState >>
    /\ UNCHANGED << clientVars, detailVars >>
    /\ process' = ProcessAfter(~ok /\ ThrowEscapes("save"))
    /\ received' = [s \in Sock |-> received[s] \o NewMessageIds(lastEmit', s)]
    /\ UNCHANGED << completed, sentOn >>

\* await Message.findById(..).populate(..) settles; then io.emit or catch.
FindDone(p, ok) ==
    /\ process = "running"
    /\ p \in pending
    /\ p.stage = "find"
    /\ pending' = pending \ {p}
    /\ LET emits == IF ok THEN NewMessageEmits(Connected, p.msg)
                          ELSE IF ThrowEscapes("find") THEN << >>
                          ELSE ErrorEmits(Connected, p.msg)
       IN
        /\ lastEmit' = emits
        /\ bcastCount' = [bcastCount EXCEPT ![p.msg._id] =
              @ + Len(SelectSeq(emits, LAMBDA e : e.ev = "newMessage"))]
    /\ failed' = IF ok THEN failed ELSE failed \cup {p.msg._id}
    /\ lastOp' = [op |-> "find", msg |-> p.msg, ok |-> ok, conn |-> Connected]
    /\ UNCHANGED << sockState, sockUser, handlers, activeUsers,
                    db, nextId, lastRegistryEvent, announced,
                    activeUsersState >>
    /\ UNCHANGED << clientVars, detailVars >>
    /\ process' = ProcessAfter(~ok /\ ThrowEscapes("find"))
    /\ received' = [s \in Sock |-> received[s] \o NewMessageIds(lastEmit', s)]
    /\ completed' = IF ok THEN Append(completed, p.msg._id) ELSE completed
    /\ UNCHANGED sentOn

TypingWaits(s) ==
    /\ process = "running"
    /\ pending = {}
    /\ sockState[s] = "active"
    /\ "typing" \in handlers[s]
    /\ lastEmit' = TypingEmits(Connected, s, "userTyping", sockUser[s])
    /\ lastOp' = [op |-> "typing", sock |-> s]
    /\ UNCHANGED << sockState, sockUser, handlers, activeUsers,
                    pending, db, nextId, lastRegistryEvent, announced,
                    bcastCount, failed, activeUsersState >>
    /\ UNCHANGED << clientVars, detailVars >>
    /\ UNCHANGED process
    /\ UNCHANGED << received, completed, sentOn >>

\* socket.on('typing')
Typing(s) ==
    /\ process = "running"
    /\ sockState[s] = "active"
    /\ "typing" \in handlers[s]
    /\ lastEmit' = TypingEmits(Connected, s, "userTyping", sockUser[s])
    /\ lastOp' = [op |-> "typing", sock |-> s]
    /\ UNCHANGED << sockState, sockUser, handlers, activeUsers,
                    pending, db, nextId, lastRegistryEvent, announced,
                    bcastCount, failed, activeUsersState >>
    /\ UNCHANGED << clientVars, detailVars >>
    /\ UNCHANGED process
    /\ UNCHANGED << received, completed, sentOn >>

StopTypingUnregisters(s) ==
    /\ process = "running"
    /\ sockState[s] = "active"
    /\ "stopTyping" \in handlers[s]
    /\ activeUsers' = MapDelete(activeUsers, sockUser[s].id)
    /\ lastEmit' = TypingEmits(Connected, s, "userStopTyping", sockUser[s])
    /\ lastOp' = [op |-> "stopTyping", sock |-> s]
    /\ UNCHANGED << sockState, sockUser, handlers,
                    pending, db, nextId, lastRegistryEvent, announced,
                    bcastCount, failed, activeUsersState >>
    /\ UNCHANGED << clientVars, detailVars >>
    /\ UNCHANGED process
    /\ UNCHANGED << received, completed, sentOn >>

\* socket.on('stopTyping')
StopTyping(s) ==
    /\ process = "running"
    /\ sockState[s] = "active"
    /\ "stopTyping" \in handlers[s]
    /\ lastEmit' = TypingEmits(Connected, s, "userStopTyping", sockUser[s])
    /\ lastOp' = [op |-> "stopTyping", sock |-> s]
    /\ UNCHANGED << sockState, sockUser, handlers, activeUsers,
                    pending, db, nextId, lastRegistryEvent, announced,
                    bcastCount, failed, activeUsersState >>
    /\ UNCHANGED << clientVars, detailVars >>
    /\ UNCHANGED process
    /\ UNCHANGED << received, completed, sentOn >>

Next ==
    \/ \E s \in Sock, token \in Tokens : Handshake(s, token)
    \/ \E s \in Sock : Connection(s)
    \/ \E s \in Sock : Disconnect(s)
    \/ \E s \in Sock, data \in Payloads : SendMessage(s, data)
    \/ \E p \in pending, ok \in BOOLEAN : SaveDone(p, ok)
    \/ \E p \in pending, ok \in BOOLEAN : FindDone(p, ok)
    \/ \E s \in Sock : Typing(s)
    \/ \E s \in Sock : StopTyping(s)

Spec == Init /\ [][Next]_vars

\* -------------------------------------------------------- client actions
\* Effect runs, drops and messages so far.
ClientLoad == effects + drops + (srvNext - 1)

\* The messages the history endpoint can return: saved ones.
DbIds == {m \in MsgId : srvStage[m] \in {"find", "done", "stored"}}

\* The socket effect: initializeSocket(user.token) makes a new socket, which
\* is not connected when io() returns; getMessages() is requested; the
\* listeners are set up now or on 'connect'.  A socket left behind by an
\* earlier run has been disconnected, and what it had not sent is gone.
RunEffect ==
    LET a == EffectAttach(rev, FALSE, NoListeners, NoSetups) IN
    /\ effects' = effects + 1
    /\ mounted' = TRUE
    /\ socketState' = "opening"
    /\ drops' = 0
    /\ listeners' = a.listeners
    /\ connectSetups' = a.setups
    /\ histReq' = histReq \cup {effects + 1}
    /\ outbox' = << >>
    /\ UNCHANGED << rev, messages, newMessage, loading, typingTimeout,
                    histResp, srvStage, srvNext, own >>
    /\ UNCHANGED << serverVars, detailVars >>
    /\ appended' = {}

\* The component mounts.
Mount ==
    /\ ~mounted
    /\ effects = 0
    /\ ClientLoad < MaxClientLoad
    /\ RunEffect
    /\ lastClient' = [op |-> "mount"]

\* user.token changes: the effect's cleanup, then the effect again.
Remount ==
    /\ mounted
    /\ effects < MaxMount
    /\ ClientLoad < MaxClientLoad
    /\ RunEffect
    /\ lastClient' = [op |-> "remount"]

\* The component unmounts: the effect's cleanup detaches every handler and
\* disconnectSocket() drops the socket.
Unmount ==
    /\ mounted
    /\ mounted' = FALSE
    /\ socketState' = "none"
    /\ listeners' = DetachAll(listeners)
    /\ connectSetups' = NoSetups
    /\ outbox' = << >>
    /\ lastClient' = [op |-> "unmount"]
    /\ UNCHANGED << rev, effects, drops, messages, newMessage, loading,
                    typingTimeout, histReq, histResp, srvStage, srvNext, own >>
    /\ UNCHANGED << serverVars, detailVars >>
    /\ appended' = {}

\* The socket connects, or reconnects after a drop: its 'connect' handlers
\* run, and those registered with once() are gone afterwards.
SocketConnect ==
    /\ mounted
    /\ socketState \in {"opening", "dropped"}
    /\ socketState' = "connected"
    /\ listeners' = SetupTimes(rev, listeners,
                               connectSetups.once + connectSetups.every)
    /\ connectSetups' = [connectSetups EXCEPT !.once = 0]
    /\ lastClient' = [op |-> "connect"]
    /\ UNCHANGED << rev, mounted, effects, drops, messages, newMessage,
                    loading, typingTimeout, outbox, histReq, histResp,
                    srvStage, srvNext, own >>
    /\ UNCHANGED << serverVars, detailVars >>
    /\ UNCHANGED appended

\* The transport drops; the socket and its handlers stay, socket.io will
\* reconnect.
SocketDrop ==
    /\ mounted
    /\ socketState = "connected"
    /\ drops < MaxDrop
    /\ ClientLoad < MaxClientLoad
    /\ socketState' = "dropped"
    /\ drops' = drops + 1
    /\ lastClient' = [op |-> "drop"]
    /\ UNCHANGED << rev, mounted, effects, listeners, connectSetups,
                    messages, newMessage, loading, typingTimeout, outbox,
                    histReq, histResp, srvStage, srvNext, own >>
    /\ UNCHANGED << serverVars, detailVars >>
    /\ UNCHANGED appended

\* handleTyping: the input changes.  The form exists once loading is over.
HandleTyping(text) ==
    /\ mounted
    /\ ~loading
    /\ newMessage' = text
    /\ typingTimeout' = TRUE
    /\ lastClient' = [op |-> "handleTyping",
                      emitted |-> IF typingTimeout THEN << >> ELSE << "typing" >>]
    /\ UNCHANGED << rev, mounted, effects, socketState, drops, listeners,
                    connectSetups, messages, loading, outbox, histReq,
                    histResp, srvStage, srvNext, own >>
    /\ UNCHANGED << serverVars, detailVars >>
    /\ UNCHANGED appended

\* The timer handleTyping set runs out.
TypingTimerFires ==
    /\ mounted
    /\ typingTimeout
    /\ typingTimeout' = FALSE
    /\ lastClient' = [op |-> "typingTimer", emitted |-> << "stopTyping" >>]
    /\ UNCHANGED << rev, mounted, effects, socketState, drops, listeners,
                    connectSetups, messages, newMessage, loading, outbox,
                    histReq, histResp, srvStage, srvNext, own >>
    /\ UNCHANGED << serverVars, detailVars >>
    /\ UNCHANGED appended

\* handleSendMessage: the form is submitted.
HandleSendMessage ==
    /\ mounted
    /\ ~loading
    /\ IF Trim(newMessage).len = 0
       THEN /\ lastClient' = [op |-> "handleSendMessage", emitted |-> << >>]
            /\ UNCHANGED << newMessage, outbox >>
       ELSE /\ Len(outbox) < MaxOut
            /\ newMessage' = Blank(0)
            /\ outbox' = Append(outbox, [content |->
                  IF rev = "current" THEN Trim(newMessage) ELSE newMessage])
            /\ lastClient' = [op |-> "handleSendMessage", emitted |->
                  IF rev = "current" THEN << "stopTyping", "sendMessage" >>
                  ELSE << "sendMessage", "stopTyping" >>]
    /\ UNCHANGED << rev, mounted, effects, socketState, drops, listeners,
                    connectSetups, messages, loading, typingTimeout,
                    histReq, histResp, srvStage, srvNext, own >>
    /\ UNCHANGED << serverVars, detailVars >>
    /\ UNCHANGED appended

\* The server's handler for this client's oldest unhandled sendMessage
\* starts and constructs a Message.  (Its typing and stopTyping go to the
\* other clients only.)
ServerReceives ==
    /\ socketState = "connected"
    /\ outbox # << >>
    /\ outbox' = Tail(outbox)
    /\ srvNext <= MaxMsg
    /\ ClientLoad < MaxClientLoad
    /\ srvStage' = [srvStage EXCEPT ![srvNext] = "save"]
    /\ srvNext' = srvNext + 1
    /\ own' = own \cup {srvNext}
    /\ lastClient' = [op |-> "server"]
    /\ UNCHANGED << rev, mounted, effects, socketState, drops, listeners,
                    connectSetups, messages, newMessage, loading,
                    typingTimeout, histReq, histResp >>
    /\ UNCHANGED << serverVars, detailVars >>
    /\ UNCHANGED appended

\* Another client's sendMessage reaches the server.
OtherSends ==
    /\ srvNext <= MaxMsg
    /\ ClientLoad < MaxClientLoad
    /\ srvStage' = [srvStage EXCEPT ![srvNext] = "save"]
    /\ srvNext' = srvNext + 1
    /\ lastClient' = [op |-> "server"]
    /\ UNCHANGED << rev, mounted, effects, socketState, drops, listeners,
                    connectSetups, messages, newMessage, loading,
                    typingTimeout, outbox, histReq, histResp, own >>
    /\ UNCHANGED << serverVars, detailVars >>
    /\ UNCHANGED appended

\* The server's await message.save() settles.
ServerSaves(m, ok) ==
    /\ srvStage[m] = "save"
    /\ srvStage' = [srvStage EXCEPT ![m] = IF ok THEN "find" ELSE "failed"]
    /\ lastClient' = [op |-> "server"]
    /\ UNCHANGED << rev, mounted, effects, socketState, drops, listeners,
                    connectSetups, messages, newMessage, loading,
                    typingTimeout, outbox, histReq, histResp, srvNext, own >>
    /\ UNCHANGED << serverVars, detailVars >>
    /\ UNCHANGED appended

\* The server's read-back settles: io.emit('newMessage', ..) reaches this
\* client if its socket is connected, and every handler attached for
\* newMessage runs; a failed read-back leaves the message stored and
\* never broadcast.
ServerEmits(m, ok) ==
    /\ srvStage[m] = "find"
    /\ srvStage' = [srvStage EXCEPT ![m] = IF ok THEN "done" ELSE "stored"]
    /\ LET reaches == ok /\ socketState = "connected"
           after == IF reaches
                    THEN DispatchNewMessage(rev, messages,
                             MessagePayload(m, Text(2)), listeners["newMessage"])
                    ELSE messages
       IN
        /\ messages' = after
        /\ lastClient' = [op |-> "newMessage", id |-> m, reaches |-> reaches,
                          had |-> Occurrences(messages, m) > 0,
                          gained |-> Len(after) - Len(messages)]
    /\ UNCHANGED << rev, mounted, effects, socketState, drops, listeners,
                    connectSetups, newMessage, loading, typingTimeout,
                    outbox, histReq, histResp, srvNext, own >>
    /\ UNCHANGED << serverVars, detailVars >>
    /\ appended' = IF Len(messages') > Len(messages) THEN appended \cup {m} ELSE appended

\* The history endpoint answers a getMessages() request.
HistoryServed(k) ==
    /\ k \in histReq
    /\ histReq' = histReq \ {k}
    /\ histResp' = histResp \cup {[req |-> k, list |-> HistoryOf(DbIds)]}
    /\ lastClient' = [op |-> "server"]
    /\ UNCHANGED << rev, mounted, effects, socketState, drops, listeners,
                    connectSetups, messages, newMessage, loading,
                    typingTimeout, outbox, srvStage, srvNext, own >>
    /\ UNCHANGED << serverVars, detailVars >>
    /\ UNCHANGED appended

HistoryLoadedAppends(r) ==
    /\ mounted
    /\ r \in histResp
    /\ histResp' = histResp \ {r}
    /\ messages' = messages \o r.list
    /\ loading' = FALSE
    /\ lastClient' = [op |-> "historyLoaded"]
    /\ UNCHANGED << rev, mounted, effects, socketState, drops, listeners,
                    connectSetups, newMessage, typingTimeout, outbox,
                    histReq, srvStage, srvNext, own >>
    /\ UNCHANGED << serverVars, detailVars >>
    /\ UNCHANGED appended

\* getMessages().then: setMessages(response.data); setLoading(false)
HistoryLoaded(r) ==
    /\ mounted
    /\ r \in histResp
    /\ histResp' = histResp \ {r}
    /\ messages' = r.list
    /\ loading' = FALSE
    /\ lastClient' = [op |-> "historyLoaded"]
    /\ UNCHANGED << rev, mounted, effects, socketState, drops, listeners,
                    connectSetups, newMessage, typingTimeout, outbox,
                    histReq, srvStage, srvNext, own >>
    /\ UNCHANGED << serverVars, detailVars >>
    /\ UNCHANGED appended

\* getMessages().catch: setMessages([]); setLoading(false)
HistoryFailed(k) ==
    /\ mounted
    /\ k \in histReq
    /\ histReq' = histReq \ {k}
    /\ messages' = << >>
    /\ loading' = FALSE
    /\ lastClient' = [op |-> "historyFailed"]
    /\ UNCHANGED << rev, mounted, effects, socketState, drops, listeners,
                    connectSetups, newMessage, typingTimeout, outbox,
                    histResp, srvStage, srvNext, own >>
    /\ UNCHANGED << serverVars, detailVars >>
    /\ UNCHANGED appended

ClientNext ==
    \/ Mount
    \/ Remount
    \/ Unmount
    \/ SocketConnect
    \/ SocketDrop
    \/ \E text \in InputTexts : HandleTyping(text)
    \/ TypingTimerFires
    \/ HandleSendMessage
    \/ ServerReceives
    \/ OtherSends
    \/ \E m \in MsgId, ok \in BOOLEAN : ServerSaves(m, ok)
    \/ \E m \in MsgId, ok \in BOOLEAN : ServerEmits(m, ok)
    \/ \E k \in 1..MaxMount : HistoryServed(k)
    \/ \E r \in histResp : HistoryLoaded(r)
    \/ \E k \in 1..MaxMount : HistoryFailed(k)

ClientInit ==
    \E r \in Revisions : ServerStart /\ ClientStart(r) /\ DetailStart

ClientSpec == ClientInit /\ [][ClientNext]_vars

\* ------------------------------------------------ per-recipient delivery
\* Bounds of DeliverySpec: broadcasts made, and packets a socket's
\* outbound buffer holds before it is saturated.
MaxCast == 2

MaxBuf == 1

\* Three units per socket that joined, three per broadcast.
MaxDeliveryLoad == 15

CastId == 1..MaxCast

DeliveryLoad == 3 * Cardinality(members \cup left) + 3 * Len(casts)

\* The transport writing packet e to one socket's outbound buffer; a
\* saturated buffer drops the packet for that socket.
Write(buf, e) == IF Len(buf) < MaxBuf THEN Append(buf, e) ELSE buf

FanoutStopsAtFull(bufs, emit, e) ==
    [s \in Sock |->
        IF s \in emit.to /\ \A q \in emit.to : q < s => Len(bufs[q]) < MaxBuf
        THEN Write(bufs[s], e) ELSE bufs[s]]

\* io.emit(...) hands the packet to every socket the emit reaches, each
\* through its own buffer, and returns without waiting for any of them.
Fanout(bufs, emit, e) ==
    [s \in Sock |-> IF s \in emit.to THEN Write(bufs[s], e) ELSE bufs[s]]

\* The emit call as a broadcast: recorded, written to every recipient's
\* buffer, dropped for the recipients whose buffer is full.
Broadcast(emit) ==
    LET e == Len(casts) + 1 IN
    /\ casts' = Append(casts, emit)
    /\ outbuf' = Fanout(outbuf, emit, e)
    /\ lost' = [s \in Sock |->
                  IF s \in emit.to /\ Len(outbuf[s]) >= MaxBuf
                  THEN lost[s] \cup {e} ELSE lost[s]]

\* A socket enters the namespace.
Join(s) ==
    /\ s \notin members \cup left
    /\ \A q \in Sock : q < s => q \in members \cup left
    /\ DeliveryLoad + 3 <= MaxDeliveryLoad
    /\ members' = members \cup {s}
    /\ UNCHANGED << left, stalled, outbuf, got, lost, casts >>
    /\ UNCHANGED << serverVars, clientVars, indicatorVars, senderVars, moduleVars >>

\* socket.on('disconnect'): the socket is out of the namespace, its buffer
\* is gone, and the handler's io.emit('activeUsers') goes to the rest.
Leave(s) ==
    /\ s \in members
    /\ Len(casts) < MaxCast
    /\ DeliveryLoad + 3 <= MaxDeliveryLoad
    /\ members' = members \ {s}
    /\ left' = left \cup {s}
    /\ stalled' = stalled \ {s}
    /\ LET emit == DisconnectEmits(members \ {s}, Len(casts) + 1)[1]
           e == Len(casts) + 1
       IN
        /\ casts' = Append(casts, emit)
        /\ outbuf' = [Fanout(outbuf, emit, e) EXCEPT ![s] = << >>]
        /\ lost' = [q \in Sock |->
                      IF q \in emit.to /\ Len(outbuf[q]) >= MaxBuf
                      THEN lost[q] \cup {e} ELSE lost[q]]
    /\ UNCHANGED got
    /\ UNCHANGED << serverVars, clientVars, indicatorVars, senderVars, moduleVars >>

\* io.emit('newMessage', populatedMessage) of a sendMessage run.
Cast ==
    /\ Len(casts) < MaxCast
    /\ DeliveryLoad + 3 <= MaxDeliveryLoad
    /\ Broadcast(IoEmit(members, "newMessage", Len(casts) + 1))
    /\ UNCHANGED << members, left, stalled, got >>
    /\ UNCHANGED << serverVars, clientVars, indicatorVars, senderVars, moduleVars >>

\* A member's connection stops draining: a slow peer.
Stall(s) ==
    /\ s \in members \ stalled
    /\ stalled' = stalled \cup {s}
    /\ UNCHANGED << members, left, outbuf, got, lost, casts >>
    /\ UNCHANGED << serverVars, clientVars, indicatorVars, senderVars, moduleVars >>

\* The transport delivers the oldest packet of a draining member's buffer.
Transmit(s) ==
    /\ s \in members \ stalled
    /\ outbuf[s] # << >>
    /\ got' = [got EXCEPT ![s] = @ \cup {Head(outbuf[s])}]
    /\ outbuf' = [outbuf EXCEPT ![s] = Tail(@)]
    /\ UNCHANGED << members, left, stalled, lost, casts >>
    /\ UNCHANGED << serverVars, clientVars, indicatorVars, senderVars, moduleVars >>

DeliveryNext ==
    \/ \E s \in Sock : Join(s)
    \/ \E s \in Sock : Leave(s)
    \/ Cast
    \/ \E s \in Sock : Stall(s)
    \/ \E s \in Sock : Transmit(s)

\* Each draining connection is flushed by the event loop.
DeliverySpec ==
    /\ Init
    /\ [][DeliveryNext]_vars
    /\ \A s \in Sock : WF_vars(Transmit(s))

\* ------------------------------------------------ the typing indicator
\* Bounds of IndicatorSpec: seconds that pass, userTyping events received.
MaxTime == 5

MaxTyping == 2

\* setTimeout(() => setTypingUser(null), 3000)
IndicatorTimeout == 3000

\* The usernames a userTyping event can carry.
TypingNames == {i.username : i \in Identities}

\* socketRef.current.on('userTyping', ({ username }) => ...): the indicator
\* shows the user and a new timeout is started; none is cancelled.
UserTyping(u) ==
    /\ typingCount < MaxTyping
    /\ typingUser' = u
    /\ timers' = timers \cup {[due |-> now + IndicatorTimeout \div 1000,
                                by |-> typingCount + 1, user |-> u]}
    /\ typingCount' = typingCount + 1
    /\ lastIndicator' = [op |-> "userTyping", user |-> u]
    /\ UNCHANGED now
    /\ UNCHANGED << serverVars, clientVars, deliveryVars, senderVars, moduleVars >>

\* socketRef.current.on('userStopTyping', () => setTypingUser(null)): the
\* { username } the server sends with the event is not read.
UserStopTyping(u) ==
    /\ typingUser' = Null
    /\ lastIndicator' = [op |-> "userStopTyping", user |-> u,
                         showing |-> typingUser]
    /\ UNCHANGED << timers, now, typingCount >>
    /\ UNCHANGED << serverVars, clientVars, deliveryVars, senderVars, moduleVars >>

\* A timeout's callback runs when it is due: () => setTypingUser(null)
TimeoutFires(t) ==
    /\ t \in timers
    /\ t.due <= now
    /\ typingUser' = Null
    /\ timers' = timers \ {t}
    /\ lastIndicator' = [op |-> "timeout", by |-> t.by, latest |-> typingCount,
                         user |-> t.user, showing |-> typingUser]
    /\ UNCHANGED << now, typingCount >>
    /\ UNCHANGED << serverVars, clientVars, deliveryVars, senderVars, moduleVars >>

\* A second passes; a due timeout runs before the clock moves on.
Tick ==
    /\ now < MaxTime
    /\ \A t \in timers : t.due > now
    /\ now' = now + 1
    /\ lastIndicator' = [op |-> "tick"]
    /\ UNCHANGED << typingUser, timers, typingCount >>
    /\ UNCHANGED << serverVars, clientVars, deliveryVars, senderVars, moduleVars >>

IndicatorNext ==
    \/ \E u \in TypingNames : UserTyping(u)
    \/ \E u \in TypingNames : UserStopTyping(u)
    \/ \E t \in timers : TimeoutFires(t)
    \/ Tick

IndicatorSpec == Init /\ [][IndicatorNext]_vars

\* ---------------------------------------------------- the typing signal
\* Bound of SenderSpec: half seconds that pass.
MaxHalfSeconds == 5

\* setTimeout(() => { emit('stopTyping'); ... }, 1000)
TypingDelay == 1000

\* The typing or stopTyping emitted last, after a step that emitted `out`.
SignalAfter(signal, out) ==
    LET s == SelectSeq(out, LAMBDA e : e \in {"typing", "stopTyping"})
    IN IF s = << >> THEN signal ELSE s[Len(s)]

\* handleTyping: a keystroke. 'typing' is emitted when no timer is held;
\* the held timer is cleared and a new one started.
KeyStroke(text) ==
    LET out == IF typingTimeoutRef = 0 THEN << "typing" >> ELSE << >> IN
    /\ draft' = text
    /\ typingTimeoutRef' = halfSeconds + TypingDelay \div 500
    /\ lastKeyAt' = halfSeconds
    /\ lastSignal' = SignalAfter(lastSignal, out)
    /\ lastSender' = [op |-> "key", before |-> lastSignal, emitted |-> out]
    /\ UNCHANGED halfSeconds
    /\ UNCHANGED << serverVars, clientVars, deliveryVars, indicatorVars, moduleVars >>

\* The timer's callback: emit('stopTyping'); typingTimeoutRef.current = null
StopTypingTimer ==
    /\ typingTimeoutRef # 0
    /\ typingTimeoutRef <= halfSeconds
    /\ typingTimeoutRef' = 0
    /\ lastSignal' = SignalAfter(lastSignal, << "stopTyping" >>)
    /\ lastSender' = [op |-> "timer", before |-> lastSignal,
                      emitted |-> << "stopTyping" >>]
    /\ UNCHANGED << draft, halfSeconds, lastKeyAt >>
    /\ UNCHANGED << serverVars, clientVars, deliveryVars, indicatorVars, moduleVars >>

\* handleSendMessage: nothing for a blank input; otherwise the input is
\* emptied, 'stopTyping' and 'sendMessage' are emitted, and the timer the
\* ref holds is left running.
Submit ==
    LET out == IF Trim(draft).len = 0 THEN << >>
               ELSE << "stopTyping", "sendMessage" >>
    IN
    /\ draft' = IF Trim(draft).len = 0 THEN draft ELSE Blank(0)
    /\ lastSignal' = SignalAfter(lastSignal, out)
    /\ lastSender' = [op |-> "submit", before |-> lastSignal, emitted |-> out]
    /\ UNCHANGED << typingTimeoutRef, halfSeconds, lastKeyAt >>
    /\ UNCHANGED << serverVars, clientVars, deliveryVars, indicatorVars, moduleVars >>

\* Half a second passes; a due timer runs before the clock moves on.
HalfSecond ==
    /\ halfSeconds < MaxHalfSeconds
    /\ typingTimeoutRef = 0 \/ typingTimeoutRef > halfSeconds
    /\ halfSeconds' = halfSeconds + 1
    /\ lastSender' = [op |-> "tick", before |-> lastSignal, emitted |-> << >>]
    /\ UNCHANGED << draft, typingTimeoutRef, lastSignal, lastKeyAt >>
    /\ UNCHANGED << serverVars, clientVars, deliveryVars, indicatorVars, moduleVars >>

SenderNext ==
    \/ \E text \in InputTexts : KeyStroke(text)
    \/ StopTypingTimer
    \/ Submit
    \/ HalfSecond

SenderSpec == Init /\ [][SenderNext]_vars

\* C32: on the sending client, whatever the keystrokes, submits and timer
\* expiries: a 'typing' is never emitted while the last signal emitted is
\* still a 'typing'; while the last signal is a 'typing' the timer that
\* will emit 'stopTyping' is running and due at most 1000 ms after the
\* last keystroke; and a keystroke that follows a 'stopTyping' emits
\* 'typing'.
C32_TypingSignalsAlternate ==
    /\ (lastSender.op # "init" /\ lastSender.emitted = << "typing" >>) =>
          lastSender.before # "typing"
    /\ lastSignal = "typing" =>
          /\ typingTimeoutRef # 0
          /\ (typingTimeoutRef - lastKeyAt) * 500 <= TypingDelay
    /\ (lastSender.op = "key" /\ lastSender.before = "stopTyping") =>
          lastSender.emitted = << "typing" >>

\* ----------------------------------------------------- the socket module
\* Bound of ModuleSpec: sockets created.
MaxCreated == 3

\* The tokens the component passes to initializeSocket.
ModuleTokens == JwtTokens

\* socket.disconnect(): the socket is closed for good.
SocketDisconnect(socks, k) ==
    [socks EXCEPT ![k] = [@ EXCEPT !.state = "disconnected"]]

\* A socket that is not disconnected is live: open, or reconnecting by
\* itself after a drop (reconnection: true).
Live(socks) == {k \in 1..Len(socks) : socks[k].state # "disconnected"}

\* export const getSocket = () => socket
GetSocket == socket

InitializeSocketKeepsOld(token) ==
    /\ Len(ioSockets) < MaxCreated
    /\ ioSockets' = Append(ioSockets, [auth |-> token, state |-> "opening"])
    /\ socket' = Len(ioSockets) + 1
    /\ lastModule' = [op |-> "initializeSocket", before |-> socket]
    /\ UNCHANGED << serverVars, clientVars, deliveryVars, indicatorVars,
                    senderVars >>

\* initializeSocket(token): the socket held is disconnected, then io()
\* creates a new one, which the module holds and returns.
InitializeSocket(token) ==
    /\ Len(ioSockets) < MaxCreated
    /\ LET closed == IF socket # 0 THEN SocketDisconnect(ioSockets, socket)
                     ELSE ioSockets
       IN ioSockets' = Append(closed, [auth |-> token, state |-> "opening"])
    /\ socket' = Len(ioSockets) + 1
    /\ lastModule' = [op |-> "initializeSocket", before |-> socket]
    /\ UNCHANGED << serverVars, clientVars, deliveryVars, indicatorVars,
                    senderVars >>

\* disconnectSocket(): if (socket) { socket.disconnect(); socket = null; }
DisconnectSocket ==
    /\ ioSockets' = IF socket # 0 THEN SocketDisconnect(ioSockets, socket)
                    ELSE ioSockets
    /\ socket' = 0
    /\ lastModule' = [op |-> "disconnectSocket", before |-> socket]
    /\ UNCHANGED << serverVars, clientVars, deliveryVars, indicatorVars,
                    senderVars >>

\* A socket's transport connects (or reconnects), or drops.
SocketEvent(k) ==
    /\ k \in Live(ioSockets)
    /\ ioSockets' = [ioSockets EXCEPT ![k] = [@ EXCEPT !.state =
          IF @ = "connected" THEN "dropped" ELSE "connected"]]
    /\ lastModule' = [op |-> "socketEvent", before |-> socket]
    /\ UNCHANGED socket
    /\ UNCHANGED << serverVars, clientVars, deliveryVars, indicatorVars,
                    senderVars >>

ModuleNext ==
    \/ \E token \in ModuleTokens : InitializeSocket(token)
    \/ DisconnectSocket
    \/ \E k \in 1..MaxCreated : SocketEvent(k)

ModuleSpec == Init /\ [][ModuleNext]_vars

\* ------------------------------------------------------ claim helpers
\* Registry entries stored under identity id uid.
EntriesFor(uid) == Cardinality({i \in 1..Len(activeUsers) : activeUsers[i].key = uid})

\* The registry's keys, and the value under a key.
MapKeys(m) == {m[i].key : i \in 1..Len(m)}

MapGet(m, k) == m[CHOOSE i \in 1..Len(m) : m[i].key = k].val

\* The emit calls of the last step that reach somebody.
Delivered == {i \in 1..Len(lastEmit) : lastEmit[i].to # {}}

\* A token that fails verification: missing, malformed, forged or expired.
FailsVerification(token) ==
    \/ token.kind # "jwt"
    \/ token.sig # "valid"
    \/ token.exp # "live"

\* C1: after any sequence of connections and disconnects the registry has
\* exactly one entry for each identity id whose most recent registry event
\* is a register, and none for an identity that never connected or whose
\* most recent registry event is an unregister.
C1_RegistryMatchesLastEvent ==
    /\ \A u \in UserIds :
        /\ lastRegistryEvent[u] = "register" => EntriesFor(u) = 1
        /\ lastRegistryEvent[u] \in {"none", "unregister"} => EntriesFor(u) = 0
    /\ MapKeys(activeUsers) \subseteq UserIds
    /\ \A i \in 1..Len(activeUsers) : activeUsers[i].val.id = activeUsers[i].key

C1_Witness ==
    \E u, v \in UserIds :
        /\ lastRegistryEvent[u] = "register"
        /\ lastRegistryEvent[v] = "unregister"
        /\ Len(activeUsers) = 1

\* C2 (as claimed): an identity id has a registry entry if and only if at
\* least one session of that identity is connected.
C2_EntryIffConnected ==
    \A u \in UserIds :
        MapHas(activeUsers, u) <=> (\E s \in Connected : sockUser[s].id = u)

\* C3: when an identity connects while it already has an entry, the
\* registry still holds a single entry for it, the entry's socketId is the
\* new connection's, and that connection and every other connected session
\* of the identity each triggered one roster announcement of their own.
C3_SecondConnectionReplaces ==
    /\ \A u \in UserIds : EntriesFor(u) <= 1
    /\ (lastOp.op = "connection" /\ lastOp.replaced) =>
        /\ EntriesFor(lastOp.user.id) = 1
        /\ MapGet(activeUsers, lastOp.user.id).socketId = lastOp.sock
        /\ \A s \in Connected : sockUser[s] = lastOp.user => announced[s] = 1

C3_Witness ==
    /\ lastOp.op = "connection"
    /\ lastOp.replaced
    /\ \E s \in Connected : s # lastOp.sock /\ sockUser[s] = lastOp.user

\* C4: a handshake whose token fails verification leaves the socket
\* rejected with nothing emitted; a rejected socket has no handler, no
\* identity, no registry entry, receives nothing and stays rejected; and the
\* rejecting step changes neither the registry nor any other socket.
C4_RejectedState ==
    /\ (lastOp.op = "handshake" /\ FailsVerification(lastOp.token)) =>
        /\ sockState[lastOp.sock] = "rejected"
        /\ lastEmit = << >>
    /\ \A s \in Sock : sockState[s] = "rejected" =>
        /\ handlers[s] = {}
        /\ sockUser[s] = NoUser
        /\ \A i \in 1..Len(activeUsers) : activeUsers[i].val.socketId # s
        /\ \A i \in 1..Len(lastEmit) : s \notin lastEmit[i].to
        /\ announced[s] = 0

C4_RejectStep ==
    \A s \in Sock :
        /\ sockState[s] = "rejected" => sockState'[s] = "rejected"
        /\ (sockState[s] = "connecting" /\ sockState'[s] = "rejected") =>
            /\ activeUsers' = activeUsers
            /\ handlers' = handlers
            /\ pending' = pending
            /\ db' = db
            /\ \A q \in Sock \ {s} :
                sockState'[q] = sockState[q] /\ sockUser'[q] = sockUser[q]

C4_NoPartialAdmission == [] C4_RejectedState /\ [][C4_RejectStep]_vars

C4_Witness ==
    /\ lastOp.op = "handshake"
    /\ FailsVerification(lastOp.token)
    /\ Connected # {}

\* C5: a handshake without a token is rejected with the no-token error, one
\* whose token fails signature, expiry or structure verification with the
\* invalid-token error, and only a token that verifies attaches its
\* identity to the socket and admits it.
C5_AuthOutcomes ==
    lastOp.op = "handshake" =>
        LET s == lastOp.sock
            token == lastOp.token
        IN
        /\ token.kind = "absent" =>
            /\ lastOp.error = ErrNoToken
            /\ sockState[s] = "rejected"
            /\ sockUser[s] = NoUser
        /\ (token.kind # "absent" /\ FailsVerification(token)) =>
            /\ lastOp.error = ErrInvalidToken
            /\ sockState[s] = "rejected"
            /\ sockUser[s] = NoUser
        /\ ~FailsVerification(token) =>
            /\ lastOp.error = ""
            /\ sockState[s] = "authenticated"
            /\ sockUser[s] = token.payload
        /\ sockState[s] = "authenticated" => ~FailsVerification(token)

C5_Witness ==
    /\ lastOp.op = "handshake"
    /\ lastOp.token.kind = "jwt"
    /\ lastOp.token.sig = "valid"
    /\ lastOp.token.exp = "expired"
    /\ \E s \in Sock : s # lastOp.sock /\ sockState[s] = "rejected"
    /\ \E s \in Sock : sockState[s] = "active"

\* C6: after a connection handler has run, the new session and every other
\* connected session have each received exactly one activeUsers event from
\* it, every one of them carrying the registry contents, which include the
\* new session's entry; nobody else receives anything.
C6_OneRosterPerSession ==
    lastOp.op = "connection" =>
        /\ lastOp.sock \in Connected
        /\ \A s \in Connected : Received(lastEmit, s, "activeUsers") = 1
        /\ \A i \in 1..Len(lastEmit) :
            /\ lastEmit[i].ev = "activeUsers"
            /\ lastEmit[i].to \subseteq Connected
            /\ lastEmit[i].payload = MapValues(activeUsers)
            /\ \E k \in 1..Len(lastEmit[i].payload) :
                /\ lastEmit[i].payload[k].id = lastOp.user.id
                /\ lastEmit[i].payload[k].username = lastOp.user.username
                /\ lastEmit[i].payload[k].socketId = lastOp.sock

C6_Witness ==
    /\ lastOp.op = "connection"
    /\ Cardinality(Connected) = 3

\* C7: when a session disconnects, every session that remains connected
\* receives exactly one activeUsers event for it, and that roster holds no
\* entry of the departed session's identity.
C7_OneRosterPerRemaining ==
    lastOp.op = "disconnect" =>
        /\ lastOp.others = Connected
        /\ \A s \in Connected : Received(lastEmit, s, "activeUsers") = 1
        /\ Received(lastEmit, lastOp.sock, "activeUsers") = 0
        /\ \A i \in 1..Len(lastEmit) :
            /\ lastEmit[i].ev = "activeUsers"
            /\ lastEmit[i].payload = MapValues(activeUsers)
            /\ \A k \in 1..Len(lastEmit[i].payload) :
                /\ lastEmit[i].payload[k].id # lastOp.user.id
                /\ lastEmit[i].payload[k].username # lastOp.user.username
                /\ lastEmit[i].payload[k].socketId # lastOp.sock

C7_Witness ==
    /\ lastOp.op = "disconnect"
    /\ Cardinality(Connected) = 2
    /\ \A s \in Connected : sockUser[s] # lastOp.user
    /\ Len(activeUsers) = 1

\* C8 (as claimed): no event attributed to an identity is delivered to any
\* session once that identity has no connected session left: no newMessage
\* whose sender it is, no userTyping or userStopTyping naming it.
C8_NoEventFromDeparted ==
    \A i \in Delivered :
        /\ lastEmit[i].ev = "newMessage" =>
            \E s \in Connected : sockUser[s].id = lastEmit[i].payload.sender._id
        /\ lastEmit[i].ev \in {"userTyping", "userStopTyping"} =>
            \E s \in Connected : sockUser[s].username = lastEmit[i].payload.username

\* C9: when a message's save and read-back have both succeeded, the
\* collection holds exactly one record of it, and every session connected
\* at the broadcast, the sender's included, has received exactly one
\* newMessage event carrying it; no message is ever broadcast twice.
C9_OneRecordOneBroadcast ==
    /\ \A m \in MsgId : bcastCount[m] <= 1
    /\ \A m \in MsgId : Cardinality({r \in db : r._id = m}) <= 1
    /\ (lastOp.op = "find" /\ lastOp.ok) =>
        /\ Cardinality({r \in db : r._id = lastOp.msg._id}) = 1
        /\ bcastCount[lastOp.msg._id] = 1
        /\ lastOp.conn = Connected
        /\ \A s \in Connected : Received(lastEmit, s, "newMessage") = 1
        /\ \A s \in Sock \ Connected : Received(lastEmit, s, "newMessage") = 0
        /\ \A i \in 1..Len(lastEmit) :
            /\ lastEmit[i].ev = "newMessage"
            /\ lastEmit[i].payload._id = lastOp.msg._id
            /\ lastEmit[i].payload.content = lastOp.msg.content
            /\ lastEmit[i].payload.sender._id = lastOp.msg.sender

C9_Witness ==
    /\ lastOp.op = "find"
    /\ lastOp.ok
    /\ lastOp.msg.sock \in Connected
    /\ Cardinality(Connected) >= 2
    /\ bcastCount = [m \in MsgId |-> 1]

\* C10: every newMessage event carries a message that is already in the
\* collection, and a submission whose save or read-back failed is never
\* broadcast: the failing step emits no newMessage.
C10_BroadcastOnlyAfterPersist ==
    /\ \A i \in 1..Len(lastEmit) : lastEmit[i].ev = "newMessage" =>
        \E r \in db :
            /\ r._id = lastEmit[i].payload._id
            /\ r.content = lastEmit[i].payload.content
            /\ r.sender = lastEmit[i].payload.sender._id
    /\ \A m \in MsgId : bcastCount[m] > 0 => \E r \in db : r._id = m
    /\ \A m \in failed : bcastCount[m] = 0
    /\ (lastOp.op \in {"save", "find"} /\ ~lastOp.ok) =>
        /\ lastOp.msg._id \in failed
        /\ \A i \in 1..Len(lastEmit) : lastEmit[i].ev # "newMessage"

C10_Witness ==
    /\ lastOp.op = "find"
    /\ ~lastOp.ok
    /\ lastOp.msg.sock \in Connected
    /\ \E m \in MsgId : bcastCount[m] = 1

\* Content the spec calls invalid: empty, only whitespace, or longer than
\* MaxContentLen code units.
InvalidContent(c) == c.len = 0 \/ c.blank \/ c.len > MaxContentLen

\* C11 (as claimed): a sendMessage whose content is empty, whitespace-only
\* or longer than 1000 code units causes no persistence call: no save() is
\* ever awaited or settled for a message with such content.
C11_NoPersistenceCall ==
    /\ \A p \in pending : ~InvalidContent(p.msg.content)
    /\ lastOp.op = "save" => ~InvalidContent(lastOp.msg.content)

\* The last step was a sendMessage run ending in its catch: the payload was
\* missing, or save() or the read-back rejected.
SendFailed ==
    \/ lastOp.op = "sendMessage" /\ lastOp.threw
    \/ lastOp.op \in {"save", "find"} /\ ~lastOp.ok

\* The socket whose sendMessage the last step belongs to.
Origin == IF lastOp.op = "sendMessage" THEN lastOp.sock ELSE lastOp.msg.sock

\* C12: when handling a sendMessage fails (missing payload, or the store
\* rejecting the save or the read-back), the only thing emitted is one error
\* event to the originating socket; no other socket receives any event, and
\* the failing step leaves the registry and every socket's session as they
\* were.
C12_FailureState ==
    SendFailed =>
        /\ \A i \in 1..Len(lastEmit) :
            /\ lastEmit[i].ev = "error"
            /\ lastEmit[i].payload = [message |-> ErrSend]
            /\ lastEmit[i].to \subseteq {Origin}
        /\ Origin \in Connected => Received(lastEmit, Origin, "error") = 1
        /\ \A s \in Sock \ {Origin} : \A i \in 1..Len(lastEmit) : s \notin lastEmit[i].to

C12_FailureStep ==
    (\/ lastOp'.op = "sendMessage" /\ lastOp'.threw
     \/ lastOp'.op \in {"save", "find"} /\ ~lastOp'.ok) =>
        /\ activeUsers' = activeUsers
        /\ sockState' = sockState
        /\ sockUser' = sockUser
        /\ handlers' = handlers
        /\ db' = db

C12_ErrorToOriginOnly == [] C12_FailureState /\ [][C12_FailureStep]_vars

C12_Witness ==
    /\ lastOp.op = "save"
    /\ ~lastOp.ok
    /\ Origin \in Connected
    /\ Cardinality(Connected) >= 2
    /\ Len(activeUsers) >= 1
    /\ Received(lastEmit, Origin, "error") = 1

\* C13: the sender of every message the server constructs, persists or
\* broadcasts is the identity the handshake attached to the submitting
\* socket, whatever the payload says; two submissions on the same socket
\* that differ only in payload fields other than content construct the same
\* message.
C13_SenderIsVerifiedIdentity ==
    /\ \A p \in pending :
        /\ sockUser[p.msg.sock] \in Identities
        /\ p.msg.sender = sockUser[p.msg.sock].id
    /\ (lastOp.op = "sendMessage" /\ ~lastOp.threw) =>
        \E p \in pending :
            /\ p.msg._id = nextId - 1
            /\ p.msg.sock = lastOp.sock
            /\ p.msg.content = lastOp.data.content
            /\ p.msg.sender = sockUser[lastOp.sock].id
    /\ (lastOp.op = "save" /\ lastOp.ok) =>
        \A r \in db : r._id = lastOp.msg._id =>
            r.sender = sockUser[lastOp.msg.sock].id
    /\ (lastOp.op = "find" /\ lastOp.ok) =>
        \A i \in 1..Len(lastEmit) :
            /\ lastEmit[i].payload.sender._id = sockUser[lastOp.msg.sock].id
            /\ lastEmit[i].payload.sender.username = sockUser[lastOp.msg.sock].username
    /\ \A s \in Connected : \A d1, d2 \in Payloads \ {Undefined} :
        d1.content = d2.content =>
            /\ NewMessage(nextId, s, sockUser[s], d1) = NewMessage(nextId, s, sockUser[s], d2)
            /\ NewMessage(nextId, s, sockUser[s], d1).sender = sockUser[s].id

C13_Witness ==
    /\ lastOp.op = "sendMessage"
    /\ ~lastOp.threw
    /\ lastOp.data.sender \in UserIds \ {sockUser[lastOp.sock].id}
    /\ \E s \in Connected : sockUser[s].id = lastOp.data.sender
    /\ \E p \in pending : p.msg._id = nextId - 1 /\ p.msg.sender # lastOp.data.sender

\* The event a typing or stopTyping handler run emits.
TypingEvent == IF lastOp.op = "typing" THEN "userTyping" ELSE "userStopTyping"

\* C14: a typing (stopTyping) event from a session is delivered as one
\* userTyping (userStopTyping) event carrying the sender's username to every
\* other connected session, and nothing is delivered to the sender.
C14_TypingReachesOthersOnly ==
    lastOp.op \in {"typing", "stopTyping"} =>
        /\ lastOp.sock \in Connected
        /\ \A s \in Connected \ {lastOp.sock} :
            Received(lastEmit, s, TypingEvent) = 1
        /\ \A i \in 1..Len(lastEmit) :
            /\ lastEmit[i].ev = TypingEvent
            /\ lastEmit[i].payload = [username |-> sockUser[lastOp.sock].username]
            /\ lastEmit[i].to = Connected \ {lastOp.sock}

C14_Witness ==
    /\ lastOp.op = "stopTyping"
    /\ Cardinality(Connected) = 3
    /\ \E s \in Connected \ {lastOp.sock} : sockUser[s] = sockUser[lastOp.sock]
    /\ \E s \in Connected : sockUser[s] # sockUser[lastOp.sock]

\* C15: in the current revision of the Chat component, after any sequence
\* of effect runs, connects and reconnects, the socket carries at most one
\* handler for each of its events (exactly one once it has connected),
\* running setupSocketListeners again would leave exactly one, and so one
\* newMessage event appends at most one entry to the messages list.
C15_OneHandlerPerEvent ==
    rev = "current" =>
        /\ \A e \in ClientEvents : listeners[e] <= 1
        /\ socketState \in {"connected", "dropped"} =>
            \A e \in ClientEvents : listeners[e] = 1
        /\ \A e \in ClientEvents : SetupSocketListeners(rev, listeners)[e] = 1
        /\ connectSetups.once + connectSetups.every <= 1
        /\ lastClient.op = "newMessage" => lastClient.gained <= 1

C15_Witness ==
    /\ rev = "current"
    /\ lastClient.op = "newMessage"
    /\ lastClient.reaches
    /\ lastClient.gained = 1
    /\ drops = 1
    /\ socketState = "connected"
    /\ listeners["newMessage"] = 1

\* C16 (as claimed): the sender's list gains exactly one entry whenever the
\* server's newMessage for one of its own messages arrives.
C16_GainsOneOnArrival ==
    (/\ rev = "current"
     /\ lastClient.op = "newMessage"
     /\ lastClient.reaches
     /\ lastClient.id \in own) => lastClient.gained = 1

\* C16 (amended): handleSendMessage leaves the messages list as it is; when
\* the server's newMessage for one of the client's own messages arrives,
\* the list gains exactly one entry for it, unless a history load has
\* already put the message in the list, in which case the list stays as it
\* is; either way the list then holds the message exactly once.
C16_ArrivalState ==
    (/\ rev = "current"
     /\ lastClient.op = "newMessage"
     /\ lastClient.reaches
     /\ lastClient.id \in own) =>
        /\ lastClient.gained = IF lastClient.had THEN 0 ELSE 1
        /\ Occurrences(messages, lastClient.id) = 1

C16_SendStep ==
    lastClient'.op = "handleSendMessage" => messages' = messages

C16_EchoOnly == [] C16_ArrivalState /\ [][C16_SendStep]_vars

C16_Witness ==
    /\ rev = "current"
    /\ lastClient.op = "newMessage"
    /\ lastClient.reaches
    /\ lastClient.id \in own
    /\ ~lastClient.had
    /\ lastClient.gained = 1
    /\ messages = << lastClient.id >>

\* The session states a socket moves through: Connecting, Authenticated,
\* Active, and Closed either after a disconnect or, for a handshake the
\* middleware refuses, without ever having been admitted.
ClosedStates == {"closed", "rejected"}

SessionMoves ==
    { << "connecting", "authenticated" >>, << "connecting", "rejected" >>,
      << "authenticated", "active" >>, << "active", "closed" >> }

\* C17: a session moves Connecting -> Authenticated -> Active -> Closed and
\* in no other way; from every other state the step towards Closed is there
\* to take; nothing leaves Closed; and a closed session has no registry
\* entry, never gets one again, and none of its connection, sendMessage,
\* typing or stopTyping handlers can run.
C17_ClosedState ==
    /\ \A s \in Sock :
        /\ sockState[s] = "authenticated" => ENABLED Connection(s)
        /\ sockState[s] = "active" => ENABLED Disconnect(s)
        /\ sockState[s] \in ClosedStates =>
            /\ \A i \in 1..Len(activeUsers) : activeUsers[i].val.socketId # s
            /\ ~ENABLED Connection(s)
            /\ ~ENABLED Typing(s)
            /\ ~ENABLED StopTyping(s)
            /\ ~ENABLED Disconnect(s)
            /\ ~ENABLED (\E data \in Payloads : SendMessage(s, data))
            /\ ~ENABLED (\E token \in Tokens : Handshake(s, token))
    /\ lastOp.op \in {"sendMessage", "typing", "stopTyping", "connection"} =>
        sockState[lastOp.sock] = "active"

C17_SessionStep ==
    \A s \in Sock :
        /\ sockState'[s] # sockState[s] =>
            << sockState[s], sockState'[s] >> \in SessionMoves
        /\ sockState[s] \in ClosedStates =>
            /\ sockState'[s] = sockState[s]
            /\ sockUser'[s] = sockUser[s]
            /\ \A i \in 1..Len(activeUsers') : activeUsers'[i].val.socketId # s

C17_SessionLifecycle == [] C17_ClosedState /\ [][C17_SessionStep]_vars

C17_Witness ==
    /\ lastOp.op = "connection"
    /\ \E s \in Sock :
        /\ sockState[s] = "closed"
        /\ sockUser[s] = lastOp.user
    /\ \E s \in Sock : sockState[s] = "rejected"
    /\ MapGet(activeUsers, lastOp.user.id).socketId = lastOp.sock

\* C18: every activeUsers payload is the complete registry as the connect
\* or disconnect that triggered it left it: entry for entry, in order, with
\* one entry per identity id; no other handler emits a roster.
C18_RosterIsWholeRegistry ==
    \A i \in 1..Len(lastEmit) : lastEmit[i].ev = "activeUsers" =>
        /\ lastOp.op \in {"connection", "disconnect"}
        /\ Len(lastEmit[i].payload) = Len(activeUsers)
        /\ \A k \in 1..Len(activeUsers) :
            lastEmit[i].payload[k] = activeUsers[k].val
        /\ \A k, j \in 1..Len(lastEmit[i].payload) :
            lastEmit[i].payload[k].id = lastEmit[i].payload[j].id => k = j
        /\ lastOp.op = "connection" =>
            \E k \in 1..Len(lastEmit[i].payload) :
                lastEmit[i].payload[k] = Entry(lastOp.user, lastOp.sock)
        /\ lastOp.op = "disconnect" =>
            \A k \in 1..Len(lastEmit[i].payload) :
                lastEmit[i].payload[k].id # lastOp.user.id

C18_Witness ==
    /\ lastOp.op = "connection"
    /\ lastOp.replaced
    /\ Len(activeUsers) = 2
    /\ Cardinality(Connected) = 3
    /\ Len(lastEmit) = 2
    /\ lastEmit[2].payload = << activeUsers[1].val, activeUsers[2].val >>

\* C19: with every connect and disconnect handled and every emitted event
\* delivered, the activeUsers state of the client of each connected session
\* is the server's registry contents, entry for entry, and so the online
\* count a client shows is the number of registry entries.
C19_ClientRosterIsRegistry ==
    /\ DOMAIN activeUsersState = Connected
    /\ \A s \in Connected :
        /\ Len(activeUsersState[s]) = Len(activeUsers)
        /\ \A k \in 1..Len(activeUsers) :
            activeUsersState[s][k] = activeUsers[k].val

C19_Witness ==
    /\ lastOp.op = "disconnect"
    /\ Cardinality(Connected) = 2
    /\ Len(activeUsers) = 1
    /\ \A s \in Connected : activeUsersState[s] = << activeUsers[1].val >>
    /\ \E s \in Connected : sockUser[s].id # activeUsers[1].key

\* C20: while a sendMessage run is suspended at one of its awaits, every
\* handler of every other session can run: typing, stopTyping, disconnect
\* and sendMessage of a connected session, the connection handler of an
\* admitted one; and each of them runs to its end (or, for sendMessage, to
\* its own first await) with the suspended run still suspended.
C20_OthersEnabled ==
    \A p \in pending : \A s \in Sock \ {p.msg.sock} :
        /\ sockState[s] = "authenticated" => ENABLED Connection(s)
        /\ sockState[s] = "active" =>
            /\ ENABLED Typing(s)
            /\ ENABLED StopTyping(s)
            /\ ENABLED Disconnect(s)
            /\ ENABLED SendMessage(s, Undefined)
            /\ (nextId <= MaxMsg /\ 3 * Attempts + 3 * nextId <= MaxLoad) =>
                \A data \in Payloads : ENABLED SendMessage(s, data)

C20_OthersStep ==
    lastOp'.op \in {"handshake", "connection", "disconnect", "sendMessage",
                    "typing", "stopTyping"} => pending \subseteq pending'

C20_NoBlocking == [] C20_OthersEnabled /\ [][C20_OthersStep]_vars

C20_Witness ==
    /\ lastOp.op = "sendMessage"
    /\ ~lastOp.threw
    /\ \E p, q \in pending :
        /\ p.stage = "save"
        /\ p.msg.sock # lastOp.sock
        /\ p.msg.sock \in Connected
        /\ q.msg.sock = lastOp.sock
        /\ q.msg._id = p.msg._id + 1

\* C21: broadcast delivery is isolated per recipient. Every io.emit reaches
\* exactly the sockets in the namespace at that moment (a socket that has
\* disconnected is simply not among them) and, in the same step, writes
\* the packet to each recipient's own buffer or drops it for a recipient
\* whose buffer is saturated, so the broadcast itself never fails; and
\* every recipient of a broadcast eventually has it delivered unless that
\* recipient itself disconnects, stalls or was saturated, whatever the
\* other recipients do.
C21_Excused(r, e) == r \in left \/ r \in stalled \/ e \in lost[r]

C21_EachRecipientServed ==
    \A r \in Sock, e \in CastId :
        (e <= Len(casts) /\ r \in casts[e].to)
            ~> (e \in got[r] \/ C21_Excused(r, e))

C21_CastStep ==
    Len(casts') > Len(casts) =>
        LET e == Len(casts') IN
        /\ Len(casts') = Len(casts) + 1
        /\ casts'[e].to = members'
        /\ casts'[e].to \cap left' = {}
        /\ \A r \in casts'[e].to :
              IF Len(outbuf[r]) < MaxBuf
              THEN outbuf'[r] = Append(outbuf[r], e) /\ e \notin lost'[r]
              ELSE outbuf'[r] = outbuf[r] /\ e \in lost'[r]

C21_IsolatedDelivery == C21_EachRecipientServed /\ [][C21_CastStep]_vars

\* A broadcast made after one socket had disconnected was dropped for a
\* stalled, saturated recipient and delivered to another one.
C21_Witness ==
    \E q \in stalled, r \in members \ stalled, e \in CastId :
        /\ e <= Len(casts)
        /\ left # {}
        /\ {q, r} \subseteq casts[e].to
        /\ e \in lost[q]
        /\ e \in got[r]

\* C22: a failure while handling one connection's sendMessage (a payload
\* without content object, a rejected save, a failed read-back) stays with
\* that connection: the failing step leaves the registry, every other
\* socket's session, every client's roster and every other suspended run
\* as they were, reaches no other socket, and leaves the process running
\* (the throw never leaves the handler, so the process-exit handlers do not
\* run); afterwards every handler of every session can still run and every
\* suspended run can still settle.
C22_FailureStep ==
    (\/ lastOp'.op = "sendMessage" /\ lastOp'.threw
     \/ lastOp'.op \in {"save", "find"} /\ ~lastOp'.ok) =>
        /\ process' = "running"
        /\ MapValues(activeUsers') = MapValues(activeUsers)
        /\ MapKeys(activeUsers') = MapKeys(activeUsers)
        /\ activeUsersState' = activeUsersState
        /\ \A s \in Sock \ {Origin'} :
            /\ sockState'[s] = sockState[s]
            /\ sockUser'[s] = sockUser[s]
            /\ handlers'[s] = handlers[s]
            /\ \A i \in 1..Len(lastEmit') : s \notin lastEmit'[i].to
        /\ pending' \subseteq pending
        /\ \A q \in pending : q.msg.sock # Origin' => q \in pending'
        /\ nextId' = nextId

C22_AfterFailure ==
    SendFailed =>
        /\ process = "running"
        /\ \A s \in Sock :
            /\ sockState[s] = "authenticated" => ENABLED Connection(s)
            /\ sockState[s] = "active" =>
                /\ ENABLED Typing(s)
                /\ ENABLED StopTyping(s)
                /\ ENABLED Disconnect(s)
                /\ ENABLED SendMessage(s, Undefined)
        /\ \A q \in pending :
            ENABLED (\E ok \in BOOLEAN : SaveDone(q, ok) \/ FindDone(q, ok))

C22_FailureIsolated == [] C22_AfterFailure /\ [][C22_FailureStep]_vars

\* A read-back failed while another session is connected and another run
\* is still suspended.
C22_Witness ==
    /\ lastOp.op = "find"
    /\ ~lastOp.ok
    /\ process = "running"
    /\ \E s \in Connected \ {Origin} : \E q \in pending : q.msg.sock = s

\* C23: the typing indicator is cleared only by the timeout of the most
\* recent userTyping event: whenever a timeout's callback clears an
\* indicator that is showing, that timeout is the one started by the last
\* userTyping event received (so the indicator shows for 3 seconds after
\* the latest event and an earlier event's timeout never clears it).
C23_ClearedByLatestTimeout ==
    (lastIndicator.op = "timeout" /\ lastIndicator.showing # Null) =>
        lastIndicator.by = lastIndicator.latest

\* C24: a disconnect of an identity that has no registry entry (a late or
\* duplicate disconnect) leaves the registry exactly as it was, and after
\* any disconnect the identity has no entry, so that deleting it once more
\* gives the same registry again.
C24_AbsentDeleteStep ==
    (lastOp'.op = "disconnect" /\ ~MapHas(activeUsers, lastOp'.user.id)) =>
        activeUsers' = activeUsers

C24_AfterDisconnect ==
    lastOp.op = "disconnect" =>
        /\ ~MapHas(activeUsers, lastOp.user.id)
        /\ MapDelete(activeUsers, lastOp.user.id) = activeUsers

C24_LateDisconnectIsNoOp ==
    [] C24_AfterDisconnect /\ [][C24_AbsentDeleteStep]_vars

\* A socket disconnected whose identity had no entry left, while another
\* identity is registered.
C24_Witness ==
    /\ lastOp.op = "disconnect"
    /\ ~lastOp.had
    /\ Len(activeUsers) >= 1

\* C25: only the connection and disconnect handlers change the registry: a
\* step of sendMessage (its start, its save settling, its read-back
\* settling, successful or failed), of typing or of stopTyping leaves
\* activeUsers as it was; and typing and stopTyping leave no trace on the
\* server at all: every variable of the server is the same before and
\* after them, apart from the record of what was just emitted.
C25_RegistryFrame ==
    lastOp'.op \in {"sendMessage", "save", "find", "typing", "stopTyping"} =>
        /\ Len(activeUsers') = Len(activeUsers)
        /\ \A i \in 1..Len(activeUsers) : activeUsers'[i] = activeUsers[i]

C25_NoTypingState ==
    lastOp'.op \in {"typing", "stopTyping"} =>
        /\ UNCHANGED << sockState, sockUser, handlers, pending, db, nextId,
                        lastRegistryEvent, announced, bcastCount, failed,
                        activeUsersState, process >>
        /\ \A i \in 1..Len(lastEmit') :
              lastEmit'[i].payload = [username |-> sockUser[lastOp'.sock].username]

C25_OnlyPresenceChangesRegistry ==
    [][C25_RegistryFrame /\ C25_NoTypingState]_vars

\* A typing event was handled while the registry has two entries and a
\* sendMessage run is suspended.
C25_Witness ==
    /\ lastOp.op = "typing"
    /\ Len(activeUsers) = 2
    /\ pending # {}

\* C26: in the Chat component of Chat.jsx, however often 'connect' fires
\* on the socket, at most one newMessage handler is attached, and a
\* newMessage event that reaches the component appends exactly one entry
\* to the messages list.
C26_OriginalAttachesOnce ==
    rev = "original" =>
        /\ listeners["newMessage"] <= 1
        /\ (lastClient.op = "newMessage" /\ lastClient.reaches) =>
              lastClient.gained = 1

\* C27: in the current revision of the Chat component the messages list
\* never holds two entries with the same _id, whether the history response
\* arrives before, between or after the newMessage events (the history
\* lists each stored message once).
C27_UniqueIds ==
    rev = "current" =>
        /\ \A m \in MsgId : Occurrences(messages, m) <= 1
        /\ \A r \in histResp : \A m \in MsgId : Occurrences(r.list, m) <= 1

\* A newMessage event arrived for a message the history load had already
\* put in the list, and the list still holds it once.
C27_Witness ==
    /\ rev = "current"
    /\ lastClient.op = "newMessage"
    /\ lastClient.reaches
    /\ lastClient.had
    /\ lastClient.gained = 0
    /\ Occurrences(messages, lastClient.id) = 1
    /\ Len(messages) = 2

\* C28: in the current revision of the Chat component, a message that a
\* newMessage event appended to the messages list is in the list for as
\* long as the component stays mounted with the same token, wherever the
\* history response falls among the newMessage events.
C28_AppendedStays ==
    (rev = "current" /\ mounted) =>
        \A m \in appended : Occurrences(messages, m) > 0

\* Where _id m first stands in sequence q (0 when it does not).
PosIn(q, m) ==
    IF \E i \in 1..Len(q) : q[i] = m
    THEN CHOOSE i \in 1..Len(q) : q[i] = m /\ \A j \in 1..(i - 1) : q[j] # m
    ELSE 0

\* C29: all sessions see new messages in the same order: each session is
\* sent each message at most once, two sessions that were both sent the
\* same two messages were sent them in the same relative order, and that
\* order is the order in which the messages' persistence (save, then
\* read-back) completed on the server.
C29_SameOrderEverywhere ==
    /\ \A s \in Sock : \A m \in MsgId :
        /\ Occurrences(received[s], m) <= 1
        /\ PosIn(received[s], m) > 0 => PosIn(completed, m) > 0
    /\ \A s \in Sock : \A m1, m2 \in MsgId :
        (PosIn(received[s], m1) > 0 /\ PosIn(received[s], m2) > 0) =>
            (PosIn(received[s], m1) < PosIn(received[s], m2)
                <=> PosIn(completed, m1) < PosIn(completed, m2))
    /\ \A s1, s2 \in Sock : \A m1, m2 \in MsgId :
        (/\ PosIn(received[s1], m1) > 0 /\ PosIn(received[s1], m2) > 0
         /\ PosIn(received[s2], m1) > 0 /\ PosIn(received[s2], m2) > 0) =>
            (PosIn(received[s1], m1) < PosIn(received[s1], m2)
                <=> PosIn(received[s2], m1) < PosIn(received[s2], m2))

\* Two sessions were both sent two messages of different sessions, the
\* later-submitted one first.
C29_Witness ==
    \E s1, s2 \in Sock :
        /\ s1 # s2
        /\ received[s1] = << 2, 1 >>
        /\ received[s2] = << 2, 1 >>
        /\ sentOn[1] # sentOn[2]
        /\ completed = << 2, 1 >>

\* C30: the messages of one session are broadcast in the order the session
\* sent them: when one socket submitted m1 and later m2 and both were
\* persisted and broadcast, every session that was sent both was sent m1
\* first.
C30_SenderOrderKept ==
    \A m1, m2 \in MsgId :
        (/\ m1 < m2
         /\ sentOn[m1] # 0
         /\ sentOn[m1] = sentOn[m2]
         /\ PosIn(completed, m1) > 0
         /\ PosIn(completed, m2) > 0) =>
            \A s \in Sock :
                (PosIn(received[s], m1) > 0 /\ PosIn(received[s], m2) > 0) =>
                    PosIn(received[s], m1) < PosIn(received[s], m2)

\* C31: in every state of the server, the socketId of each registry entry
\* names a socket that is connected to the namespace and whose verified
\* identity is the entry's key; no entry names a closed socket.
C31_EntryPointsAtLiveSession ==
    \A i \in 1..Len(activeUsers) :
        LET e == activeUsers[i] IN
        /\ e.val.socketId \in Sock
        /\ e.val.socketId \in Connected
        /\ sockState[e.val.socketId] \notin ClosedStates
        /\ sockUser[e.val.socketId].id = e.key
        /\ sockUser[e.val.socketId].username = e.val.username

\* An identity reconnected on a second socket after its first one closed,
\* next to another registered identity.
C31_Witness ==
    \E s1, s2 \in Sock :
        /\ sockState[s1] = "closed"
        /\ sockState[s2] = "active"
        /\ sockUser[s1] = sockUser[s2]
        /\ Len(activeUsers) = 2
        /\ \E i \in 1..Len(activeUsers) : activeUsers[i].val.socketId = s2

\* C33: on the receiving client, a userStopTyping event of user X, or the
\* expiry of a timeout that a userTyping event of X started, clears the
\* typing indicator only when the indicator shows X; an indicator showing
\* another user is left as it is.
C33_ClearsOwnIndicatorOnly ==
    (/\ lastIndicator.op \in {"userStopTyping", "timeout"}
     /\ lastIndicator.showing # Null
     /\ lastIndicator.showing # lastIndicator.user) =>
        typingUser = lastIndicator.showing

\* C34: the client's socket module holds at most one live socket: at any
\* moment no socket but the one the module holds is live, so every socket
\* created earlier was disconnected before a new one became current;
\* getSocket returns the most recently created socket after
\* initializeSocket and null after disconnectSocket; and a disconnectSocket
\* call made while the module holds no socket changes nothing.
C34_OneLiveSocket ==
    /\ Cardinality(Live(ioSockets)) <= 1
    /\ Live(ioSockets) \subseteq {socket}
    /\ socket # 0 => socket = Len(ioSockets) /\ socket \in Live(ioSockets)
    /\ lastModule.op = "initializeSocket" =>
          /\ GetSocket = Len(ioSockets)
          /\ ioSockets[GetSocket].state = "opening"
          /\ lastModule.before # 0 =>
                ioSockets[lastModule.before].state = "disconnected"
    /\ lastModule.op = "disconnectSocket" =>
          /\ GetSocket = 0
          /\ Live(ioSockets) = {}

C34_SecondDisconnectStep ==
    (lastModule'.op = "disconnectSocket" /\ socket = 0) =>
        /\ socket' = socket
        /\ ioSockets' = ioSockets

C34_SingleLiveSocket ==
    [] C34_OneLiveSocket /\ [][C34_SecondDisconnectStep]_vars

\* A third socket was created while the module held the second one; the
\* first two are disconnected.
C34_Witness ==
    /\ lastModule.op = "initializeSocket"
    /\ lastModule.before = 2
    /\ socket = 3
    /\ Len(ioSockets) = 3
    /\ \A k \in {1, 2} : ioSockets[k].state = "disconnected"

====
